---- MODULE Spec2Model ----
(***************************************************************************)
(* Model of txt2file.py: the streaming conversion of a flat-text catalog   *)
(* (bdbsCat.processStream / processInputLine / getIthOutfile) and the      *)
(* drivers testStream and testConvertMany.                                 *)
(*                                                                         *)
(* Strings are sequences of atoms (one atom per character, except that a   *)
(* word of a literal of the program - a column name, a directory - is one  *)
(* atom).  A file is the sequence of atoms written to it.                  *)
(***************************************************************************)
EXTENDS Integers, Sequences, FiniteSets, TLC

\* ------------------------------------------------------------------ bounds
\* longest input file, in lines
MaxLines == 3
\* largest bunch size tried (bunch sizes 0..MaxBunch)
MaxBunch == 2
\* largest early-stop limit tried (limits -1..MaxLimit)
MaxLimit == 1
\* largest pixel index the spatial library answers with
MaxPix == 1
\* longest batch of testConvertMany, in files
MaxBatch == 3
\* longest file of a batch, in lines
MaxBatchLines == 2

\* ------------------------------------------------------- program constants
\* bdbsCat.__init__: self.idMax = -1
IdMaxInit == -1
\* bdbsCat.__init__: self.colRA, self.colDE (0-based token positions)
colRA == 0
colDE == 1
\* testConvertMany: the bunch size and the limit it passes to testStream
ManyBunch == 1000000
ManyLimit == -1
\* testConvertMany: idMin = 0
ManyIdMinInit == 0
\* getIthOutfile: str(iFiles).zfill(3)
ZFillWidth == 3

outDir == "tiles"
exten == "csv"

\* ----------------------------------------------------------------- strings
DigitChars == <<"0", "1", "2", "3", "4", "5", "6", "7", "8", "9">>
DigitSet == {DigitChars[i] : i \in 1..10}
Whitespace == {" ", "\n", "\t"}
NL == <<"\n">>

RECURSIVE Concat(_)
\* ''.join(list of strings), what writelines does with a bunch
Concat(ss) == IF ss = <<>> THEN <<>> ELSE Head(ss) \o Concat(Tail(ss))

RECURSIVE Join(_, _)
\* sep.join(list of strings)
Join(ss, sep) ==
  IF ss = <<>> THEN <<>>
  ELSE IF Len(ss) = 1 THEN Head(ss)
  ELSE Head(ss) \o sep \o Join(Tail(ss), sep)

RECURSIVE SplitFrom(_, _, _)
SplitFrom(s, cur, acc) ==
  IF s = <<>> THEN (IF cur = <<>> THEN acc ELSE Append(acc, cur))
  ELSE IF Head(s) \in Whitespace
       THEN SplitFrom(Tail(s), <<>>, IF cur = <<>> THEN acc ELSE Append(acc, cur))
       ELSE SplitFrom(Tail(s), Append(cur, Head(s)), acc)

\* str.split(): the maximal runs of non-whitespace, in order
Split(s) == SplitFrom(s, <<>>, <<>>)

RECURSIVE FmtNat(_)
FmtNat(n) ==
  IF n < 10 THEN <<DigitChars[n + 1]>>
  ELSE FmtNat(n \div 10) \o <<DigitChars[(n % 10) + 1]>>

\* "%i" % n and str(n): decimal, a minus sign for a negative number
FmtInt(n) == IF n < 0 THEN <<"-">> \o FmtNat(0 - n) ELSE FmtNat(n)

RECURSIVE ZFill(_, _)
\* str.zfill(w) of an unsigned numeral
ZFill(s, w) == IF Len(s) >= w THEN s ELSE ZFill(<<"0">> \o s, w)

\* float(tok) succeeds; over the atoms used here (digits and letters) that
\* is: tok is a non-empty run of digits
IsFloat(tok) == tok # <<>> /\ \A i \in 1..Len(tok) : tok[i] \in DigitSet

\* ------------------------------------------------------------- the header
listHeader ==
  << "id", "ra", "dec", "raerr", "decerr", "radeccov",
     "u", "uerr", "uesq", "unobs", "uerrfl", "uskyflg", "ushpflg", "uovrflg",
     "g", "gerr", "gesq", "gnobs", "gerrfl", "gskyflg", "gshpflg", "govrflg",
     "r", "rerr", "resq", "rnobs", "rerrfl", "rskyflg", "rshpflg", "rovrflg",
     "i", "ierr", "iesq", "inobs", "ierrfl", "iskyflg", "ishpflg", "iovrflg",
     "z", "zerr", "zesq", "znobs", "zerrfl", "zskyflg", "zshpflg", "zovrflg",
     "y", "yerr", "yesq", "ynobs", "yerrfl", "yskyflg", "yshpflg", "yovrflg" >>

\* setHeaderLineCSV: ','.join(listHeader)
HeaderCSV == Join([i \in 1..Len(listHeader) |-> <<listHeader[i]>>], <<",">>)

\* bdbsCat.__init__: self.lineHeader = ''
HeaderNone == <<>>

\* processStream: if len(self.lineHeader) > 1
HeaderConfigured(h) == Len(h) > 1

\* "%s\n" % (self.lineHeader)
HeaderLine(h) == h \o NL

\* ------------------------------------------------------------ output paths
\* os.path.splitext(self.infil)[0]
Stem(f) == f.stem

\* getIthOutfile: "%s/%s_%s.%s" % (outDir, stem, str(iFiles).zfill(3), exten)
GetIthOutfile(f, iFiles) ==
  <<outDir, "/">> \o Stem(f) \o <<"_">> \o ZFill(FmtInt(iFiles), ZFillWidth) \o <<".", exten>>

\* ------------------------------------------------------- processInputLine
\* what the spatial library answers: an index, or an exception
HpOutcomes == [ok : {TRUE}, pix : 0..MaxPix] \cup {[ok |-> FALSE, pix |-> 0]}

Returned(s) == [raised |-> FALSE, out |-> s]
Raised == [raised |-> TRUE, out |-> <<>>]

\* as processInputLine, the trailing newline forgotten
ProcessInputLine_NoNewline(lineIn, IDsupp, healpix, hpPrimary, hpFallback) ==
  LET lSplit == Split(lineIn) IN
  IF Len(lineIn) < 1 THEN Returned(lineIn)
  ELSE IF Len(lSplit) < 2 THEN Returned(lineIn)
  ELSE IF ~ (IsFloat(lSplit[colRA + 1]) /\ IsFloat(lSplit[colDE + 1])) THEN Raised
  ELSE IF healpix /\ ~ hpPrimary.ok /\ ~ hpFallback.ok THEN Raised
  ELSE LET thisID == IF healpix
                     THEN (IF hpPrimary.ok THEN hpPrimary.pix ELSE hpFallback.pix)
                     ELSE IDsupp
       IN Returned(Join(<<FmtInt(thisID)>> \o lSplit, <<",">>))

\* processInputLine(lineIn, IDsupp): the string returned, or the exception
ProcessInputLine(lineIn, IDsupp, healpix, hpPrimary, hpFallback) ==
  LET lSplit == Split(lineIn) IN
  IF Len(lineIn) < 1 THEN Returned(lineIn)
  ELSE IF Len(lSplit) < 2 THEN Returned(lineIn)
  ELSE IF ~ (IsFloat(lSplit[colRA + 1]) /\ IsFloat(lSplit[colDE + 1])) THEN Raised
  ELSE IF healpix /\ ~ hpPrimary.ok /\ ~ hpFallback.ok THEN Raised
  ELSE LET thisID == IF healpix
                     THEN (IF hpPrimary.ok THEN hpPrimary.pix ELSE hpFallback.pix)
                     ELSE IDsupp
       IN Returned(Join(<<FmtInt(thisID)>> \o lSplit, <<",">>) \o NL)

\* ------------------------------------------------------------- input files
\* lines as the file iterator yields them: each ends with its newline, except
\* possibly the last line of the file
LineBlank == <<"\n">>
LineData == <<"1", "0", " ", " ", "2", "\n">>
LineText == <<"x", " ", "2", "\n">>
LineOneTok == <<"7">>
LineNoNL == <<"3", " ", "4">>
MidLines == {LineBlank, LineData, LineText}
AllLines == MidLines \cup {LineOneTok, LineNoNL}

\* the contents an input file of at most n lines can have
Inputs(mid, all, n) ==
  UNION { { s \in [1..m -> all] : \A i \in 1..(m - 1) : s[i] \in mid } : m \in 0..n }

\* a file of the directory: its name without extension, whether os.access
\* grants reading it, the lines it holds
File(stem, readable, lines) == [stem |-> stem, readable |-> readable, lines |-> lines]

SingleFiles(n) ==
  { File(<<"TEST">>, TRUE, ls) : ls \in Inputs(MidLines, AllLines, n) }
    \cup { File(<<"TEST">>, FALSE, <<>>) }

\* glob.glob('field_???.catalog'): field_001, field_002, ...
BatchStem(j) == <<"field_">> \o ZFill(FmtInt(j), ZFillWidth)
BatchContents(n) ==
  { <<TRUE, ls>> : ls \in Inputs({LineData, LineBlank}, {LineData, LineBlank}, n) }
    \cup { <<FALSE, <<>> >> }
\* the batches of at most n files, of at most nl lines each
Batches(n, nl) ==
  UNION { { [j \in 1..m |-> File(BatchStem(j), c[j][1], c[j][2])] :
              c \in [1..m -> BatchContents(nl)] } : m \in 0..n }

\* -------------------------------------------------------------- file system
\* what an earlier run of the same job left in the output directory: its
\* first two output files
OldContent == <<"9", ",", "9", ",", "9", "\n">>
EmptyFS == [p \in {} |-> <<>>]
StaleFS(f) == [p \in {GetIthOutfile(f, 0), GetIthOutfile(f, 1)} |-> OldContent]

Content(fsys, p) == IF p \in DOMAIN fsys THEN fsys[p] ELSE <<>>

\* as open(p, "w"), the file opened without truncation
WriteNew_Appending(fsys, p, s) ==
  [q \in DOMAIN fsys \cup {p} |-> IF q = p
                                  THEN (IF p \in DOMAIN fsys THEN fsys[p] ELSE <<>>) \o s
                                  ELSE fsys[q]]

\* with open(p, "w") as wObj: wObj.write(s)
WriteNew(fsys, p, s) == [q \in DOMAIN fsys \cup {p} |-> IF q = p THEN s ELSE fsys[q]]

\* with open(p, "a") as wObj: wObj.writelines(bunch)
AppendTo(fsys, p, s) ==
  [q \in DOMAIN fsys \cup {p} |-> IF q = p THEN Content(fsys, p) \o s ELSE fsys[q]]

\* ------------------------------------------------------------------- state
VARIABLES
  lFiles,       \* the input files, in the order they are converted
  k,            \* position in lFiles of the file being converted (0: none yet)
  debug,        \* testConvertMany: Debug
  manyIdMin,    \* testConvertMany: idMin
  lineHeader,   \* bdbsCat.lineHeader
  useHealpix,   \* bdbsCat.useHealpix
  idMin,        \* bdbsCat.idMin
  idMax,        \* bdbsCat.idMax
  splitFiles,   \* bdbsCat.splitFiles
  nBunch,       \* bdbsCat.nBunch
  iMax,         \* processStream: iMax
  iBunch,       \* processStream: iBunch
  pathOut,      \* processStream: pathOut
  iCount,       \* processStream: iCount
  bunch,        \* processStream: bunch
  pc,           \* where the run is
  fs,           \* the output directory: path -> content
  procd,        \* the values processInputLine returned in this run, in order
  issued,       \* the identifiers supplied in counter mode: [file, id], in order
  log           \* the opens of output files in this run: [path, mode, size]

obj == <<lineHeader, useHealpix, idMin, idMax, splitFiles, nBunch>>
loc == <<iMax, iBunch, pathOut, iCount, bunch>>
drv == <<lFiles, k, debug, manyIdMin>>
vars == <<drv, obj, loc, pc, fs, procd, issued, log>>

infil == lFiles[k]

Opened(p, mode, size) == [path |-> p, mode |-> mode, size |-> size]

\* ------------------------------------------------------------ processStream
\* suppID = self.idMin + iCount
SuppID(min, count) == min + count

\* as the flush test, one line late
BunchFull_Late(b, n) == Len(b) = n + 1
\* if len(bunch) == self.nBunch
BunchFull(b, n) == Len(b) = n

\* as the early stop, stopping at the limit itself
ShouldBreak_AtLimit(count, limit) == count >= limit /\ limit > 0
\* if iCount > iMax and iMax > 0
ShouldBreak(count, limit) == count > limit /\ limit > 0

\* as the final test, the partial bunch never written
RemainingBunch_Dropped(b) == FALSE
\* if len(bunch) > 0
RemainingBunch(b) == Len(b) > 0

\* if not os.access(self.infil, os.R_OK): ... return
Access ==
  /\ pc = "access"
  /\ pc' = IF infil.readable THEN "open" ELSE "fatal"
  /\ UNCHANGED <<drv, obj, loc, fs, procd, issued, log>>

\* iBunch = 0; pathOut = getIthOutfile(0); the header written to a new file
OpenFirst ==
  /\ pc = "open"
  /\ iBunch' = 0
  /\ pathOut' = GetIthOutfile(infil, 0)
  /\ IF HeaderConfigured(lineHeader)
     THEN /\ fs' = WriteNew(fs, pathOut', HeaderLine(lineHeader))
          /\ log' = Append(log, Opened(pathOut', "w", Len(HeaderLine(lineHeader))))
     ELSE UNCHANGED <<fs, log>>
  /\ iCount' = 0
  /\ bunch' = <<>>
  /\ pc' = "loop"
  /\ UNCHANGED <<drv, obj, iMax, procd, issued>>

\* for line in rObj: count it, supply the identifier, process it, buffer it
ReadLine ==
  /\ pc = "loop"
  /\ iCount < Len(infil.lines)
  /\ \E hpPrimary \in HpOutcomes, hpFallback \in HpOutcomes :
       LET line == infil.lines[iCount + 1]
           suppID == IF ~ useHealpix THEN SuppID(idMin, iCount + 1) ELSE -1
           lProc == ProcessInputLine(line, suppID, useHealpix, hpPrimary, hpFallback)
       IN /\ iCount' = iCount + 1
          /\ idMax' = IF ~ useHealpix THEN suppID ELSE idMax
          /\ issued' = IF ~ useHealpix
                       THEN Append(issued, [file |-> k, id |-> suppID])
                       ELSE issued
          /\ IF lProc.raised
             THEN /\ pc' = "raised"
                  /\ UNCHANGED <<bunch, procd>>
             ELSE /\ bunch' = Append(bunch, lProc.out)
                  /\ procd' = Append(procd, lProc.out)
                  /\ pc' = "flush"
  /\ UNCHANGED <<drv, lineHeader, useHealpix, idMin, splitFiles, nBunch>>
  /\ UNCHANGED <<iMax, iBunch, pathOut, fs, log>>

\* the iterator is exhausted: the loop ends
EndOfInput ==
  /\ pc = "loop"
  /\ iCount = Len(infil.lines)
  /\ pc' = "final"
  /\ UNCHANGED <<drv, obj, loc, fs, procd, issued, log>>

\* a full bunch is appended to pathOut; when splitting, the next file is
\* named and initialised with the header line
FlushIfFull ==
  /\ pc = "flush"
  /\ IF BunchFull(bunch, nBunch)
     THEN LET flushed == AppendTo(fs, pathOut, Concat(bunch))
              appended == Append(log, Opened(pathOut, "a", Len(Content(fs, pathOut))))
              nextPath == GetIthOutfile(infil, iBunch + 1)
          IN /\ bunch' = <<>>
             /\ iBunch' = iBunch + 1
             /\ IF splitFiles
                THEN /\ pathOut' = nextPath
                     /\ fs' = WriteNew(flushed, nextPath, HeaderLine(lineHeader))
                     /\ log' = Append(appended,
                                  Opened(nextPath, "w", Len(HeaderLine(lineHeader))))
                ELSE /\ pathOut' = pathOut
                     /\ fs' = flushed
                     /\ log' = appended
     ELSE UNCHANGED <<bunch, iBunch, pathOut, fs, log>>
  /\ pc' = "brk"
  /\ UNCHANGED <<drv, obj, iMax, iCount, procd, issued>>

\* the early stop
CheckBreak ==
  /\ pc = "brk"
  /\ pc' = IF ShouldBreak(iCount, iMax) THEN "final" ELSE "loop"
  /\ UNCHANGED <<drv, obj, loc, fs, procd, issued, log>>

\* after the loop: the remaining partial bunch is appended to pathOut
FinalFlush ==
  /\ pc = "final"
  /\ IF RemainingBunch(bunch)
     THEN /\ fs' = AppendTo(fs, pathOut, Concat(bunch))
          /\ log' = Append(log, Opened(pathOut, "a", Len(Content(fs, pathOut))))
     ELSE UNCHANGED <<fs, log>>
  /\ pc' = "done"
  /\ UNCHANGED <<drv, obj, loc, procd, issued>>

\* ------------------------------------------------------- one conversion job
\* a bdbsCat constructed and configured as testStream does it (the header
\* set by setHeaderLineCSV, or left as the constructor sets it), about to
\* run processStream(iMax); the output directory holds the first two output
\* files of an earlier run of the same job
Init ==
  /\ lFiles \in { <<f>> : f \in SingleFiles(MaxLines) }
  /\ k = 1
  /\ debug = FALSE
  /\ manyIdMin = ManyIdMinInit
  /\ lineHeader \in {HeaderNone, HeaderCSV}
  /\ useHealpix \in BOOLEAN
  /\ idMin \in IF useHealpix THEN {0} ELSE {0, 8}
  /\ idMax = IdMaxInit
  /\ splitFiles \in BOOLEAN
  /\ nBunch \in 0..MaxBunch
  /\ iMax \in -1..MaxLimit
  /\ iBunch = 0
  /\ pathOut = <<>>
  /\ iCount = 0
  /\ bunch = <<>>
  /\ pc = "access"
  /\ fs = StaleFS(lFiles[1])
  /\ procd = <<>>
  /\ issued = <<>>
  /\ log = <<>>

Next ==
  \/ Access
  \/ OpenFirst
  \/ ReadLine
  \/ EndOfInput
  \/ FlushIfFull
  \/ CheckBreak
  \/ FinalFlush

Spec == Init /\ [][Next]_vars

\* ---------------------------------------------------------- testConvertMany
\* idMin = idMax + 1
NextIdMin(max) == max + 1

\* for thisFile in lFiles: (Debug) print thisFile
PrintFile ==
  /\ pc = "many"
  /\ k < Len(lFiles)
  /\ debug
  /\ k' = k + 1
  /\ UNCHANGED <<lFiles, debug, manyIdMin, obj, loc, pc, fs, procd, issued, log>>

\* for thisFile in lFiles: testStream(-1, 1000000, True, True, thisFile,
\* useHealpix, idMin) constructs and configures the object and starts
\* processStream
TestStreamCall ==
  /\ pc = "many"
  /\ k < Len(lFiles)
  /\ ~ debug
  /\ k' = k + 1
  /\ lineHeader' = HeaderCSV
  /\ idMin' = manyIdMin
  /\ idMax' = IdMaxInit
  /\ splitFiles' = TRUE
  /\ nBunch' = ManyBunch
  /\ iMax' = ManyLimit
  /\ iBunch' = 0
  /\ pathOut' = <<>>
  /\ iCount' = 0
  /\ bunch' = <<>>
  /\ procd' = <<>>
  /\ log' = <<>>
  /\ pc' = "access"
  /\ UNCHANGED <<lFiles, debug, manyIdMin, useHealpix, fs, issued>>

\* return BD.idMax; idMin = idMax + 1
TestStreamReturn ==
  /\ pc \in {"done", "fatal"}
  /\ manyIdMin' = NextIdMin(idMax)
  /\ pc' = "many"
  /\ UNCHANGED <<lFiles, k, debug, obj, loc, fs, procd, issued, log>>

\* lFiles = glob.glob(srch); idMin = 0
InitMany ==
  /\ lFiles \in Batches(MaxBatch, MaxBatchLines)
  /\ k = 0
  /\ debug \in BOOLEAN
  /\ manyIdMin = ManyIdMinInit
  /\ lineHeader = HeaderNone
  /\ useHealpix \in BOOLEAN
  /\ idMin = 0
  /\ idMax = IdMaxInit
  /\ splitFiles = FALSE
  /\ nBunch = ManyBunch
  /\ iMax = ManyLimit
  /\ iBunch = 0
  /\ pathOut = <<>>
  /\ iCount = 0
  /\ bunch = <<>>
  /\ pc = "many"
  /\ fs = EmptyFS
  /\ procd = <<>>
  /\ issued = <<>>
  /\ log = <<>>

NextMany ==
  \/ Access
  \/ OpenFirst
  \/ ReadLine
  \/ EndOfInput
  \/ FlushIfFull
  \/ CheckBreak
  \/ FinalFlush
  \/ PrintFile
  \/ TestStreamCall
  \/ TestStreamReturn

SpecMany == InitMany /\ [][NextMany]_vars

\* ---------------------------------------------------- reading the outcome
\* the number of lines of the input being converted
N == Len(infil.lines)

Min(a, b) == IF a < b THEN a ELSE b
CeilDiv(n, b) == (n + b - 1) \div b

IsPrefix(a, s) == Len(s) >= Len(a) /\ SubSeq(s, 1, Len(a)) = a

\* the output files this run opened
UsedPaths == { log[j].path : j \in DOMAIN log }

OpensOf(p) == { j \in DOMAIN log : log[j].path = p }
FirstOpen(p) == log[CHOOSE j \in OpensOf(p) : \A j2 \in OpensOf(p) : j <= j2]
Truncations(p) == { j \in OpensOf(p) : log[j].mode = "w" }

\* what this run appended to p after it first opened (and initialised) it
DataOf(p) == SubSeq(fs[p], FirstOpen(p).size + 1, Len(fs[p]))

RECURSIVE DataFrom(_)
\* the data of the output files with index i, i+1, ..., in that order
DataFrom(i) ==
  IF i > iBunch THEN <<>>
  ELSE (IF GetIthOutfile(infil, i) \in UsedPaths
        THEN DataOf(GetIthOutfile(infil, i)) ELSE <<>>) \o DataFrom(i + 1)

AllData == DataFrom(0)

Occurrences(a, s) == Cardinality({ i \in DOMAIN s : s[i] = a })

\* the output line of the i-th input line when it carries identifier id
Emitted(i, id) ==
  IF Len(Split(infil.lines[i])) < 2
  THEN infil.lines[i]
  ELSE Join(<<FmtInt(id)>> \o Split(infil.lines[i]), <<",">>) \o NL

\* procd[i] is the i-th input line, passed through or with an identifier
\* of the active mode prepended
IsEmitted(i) ==
  IF useHealpix
  THEN \E pix \in 0..MaxPix : procd[i] = Emitted(i, pix)
  ELSE procd[i] = Emitted(i, idMin + i)

Path000 == <<"tiles", "/", "TEST", "_", "0", "0", "0", ".", "csv">>

AllReadable == \A j \in DOMAIN lFiles : lFiles[j].readable
IdsOf(j) == { issued[a].id : a \in { b \in DOMAIN issued : issued[b].file = j } }

\* ------------------------------------------------------------------ claims

\* C1: in splitting mode with bunch size B >= 1 and no early-stop limit, a
\* completed run over N lines has produced exactly ceil(N/B) output files,
\* file j holding lines j*B+1 .. min((j+1)*B, N) after its header, so that no
\* file holds the header alone.
C1_SplitFileCount ==
  (pc = "done" /\ splitFiles /\ nBunch >= 1 /\ iMax <= 0 /\ HeaderConfigured(lineHeader))
    => /\ Cardinality(UsedPaths) = CeilDiv(N, nBunch)
       /\ \A j \in 0..(CeilDiv(N, nBunch) - 1) :
            /\ GetIthOutfile(infil, j) \in UsedPaths
            /\ fs[GetIthOutfile(infil, j)] =
                 HeaderLine(lineHeader)
                   \o Concat(SubSeq(procd, j * nBunch + 1, Min((j + 1) * nBunch, N)))
       /\ \A p \in UsedPaths : fs[p] # HeaderLine(lineHeader)

\* C2: in counter mode, over a batch of readable files converted in sequence
\* by testConvertMany, no identifier is supplied to two lines.
C2_BatchIdsUnique ==
  (~ useHealpix /\ AllReadable)
    => \A a \in DOMAIN issued : \A b \in DOMAIN issued :
         a # b => issued[a].id # issued[b].id

\* C3: in counter mode the identifiers of a batch are strictly increasing in
\* processing order, and the first identifier of file j+1 is one more than
\* the largest identifier of file j.
C3_BatchIdsContinue ==
  (~ useHealpix /\ AllReadable)
    => /\ \A a \in DOMAIN issued :
            a + 1 \in DOMAIN issued => issued[a].id < issued[a + 1].id
       /\ \A j \in DOMAIN lFiles :
            (IdsOf(j) # {} /\ IdsOf(j + 1) # {})
              => \E lo \in IdsOf(j + 1) : \E hi \in IdsOf(j) :
                   /\ \A x \in IdsOf(j + 1) : lo <= x
                   /\ \A x \in IdsOf(j) : x <= hi
                   /\ lo = hi + 1

\* C4: when processStream returns normally, what it appended to its output
\* files, read in increasing file index, is exactly the lines processInputLine
\* returned for the lines read, in input order: none lost, none twice, none
\* out of place; with a header, every file it used begins with the header
\* line and holds nothing from before the run.
C4_EveryLineWrittenOnce ==
  pc = "done"
    => /\ Len(procd) = iCount
       /\ \A i \in 1..Len(procd) : IsEmitted(i)
       /\ AllData = Concat(procd)
       /\ HeaderConfigured(lineHeader)
            => \A p \in UsedPaths :
                 fs[p] = HeaderLine(lineHeader) \o DataOf(p)

\* C4, witness: a run in splitting mode that ended on a partial bunch in its
\* second file
C4_Witness ==
  /\ pc = "done"
  /\ splitFiles
  /\ nBunch = 2
  /\ Len(procd) = 3
  /\ Cardinality(UsedPaths) = 2
  /\ DataOf(GetIthOutfile(infil, 1)) = procd[3]

AtIterationEnd == pc \in {"brk", "loop", "final"} /\ iCount > 0

\* C5 as stated: for every configured bunch size the bunch never holds more
\* than nBunch lines, and fewer than nBunch once an iteration has ended.
C5_BunchBoundedAnySize ==
  /\ Len(bunch) <= nBunch
  /\ AtIterationEnd => Len(bunch) < nBunch

\* C5, amended: for every bunch size nBunch >= 1 the bunch never holds more
\* than nBunch lines, and fewer than nBunch once an iteration has ended.
C5_BunchBounded ==
  nBunch >= 1
    => /\ Len(bunch) <= nBunch
       /\ AtIterationEnd => Len(bunch) < nBunch

\* C5, witness: the bunch has just reached the threshold and is about to be
\* flushed
C5_Witness == pc = "flush" /\ nBunch = 2 /\ Len(bunch) = 2 /\ iCount = 2

\* C6: every output file of a completed run was created by truncation once,
\* before anything was appended to it; with a header it begins with the
\* header line and holds the header nowhere else; without a header it was
\* created empty.
C6_CreatedByTruncationOnce ==
  pc = "done"
    => \A p \in UsedPaths :
         /\ FirstOpen(p).mode = "w"
         /\ Cardinality(Truncations(p)) = 1
         /\ IF HeaderConfigured(lineHeader)
            THEN /\ IsPrefix(HeaderLine(lineHeader), fs[p])
                 /\ Occurrences(Head(lineHeader), fs[p]) = 1
            ELSE /\ FirstOpen(p).size = 0
                 /\ fs[p] = DataOf(p)

\* C7: a completed run with limit iMax > 0 has processed and written exactly
\* min(N, iMax + 1) lines, the one that triggered the stop included; with
\* iMax <= 0 it has processed and written all N lines.
C7_EarlyStop ==
  pc = "done"
    => /\ iCount = (IF iMax > 0 THEN Min(N, iMax + 1) ELSE N)
       /\ Len(procd) = iCount
       /\ AllData = Concat(procd)

\* C7, witness: a run stopped by the limit before the end of its input
C7_Witness == pc = "done" /\ iMax = 1 /\ N = 3 /\ iCount = 2 /\ Len(procd) = 2

\* C8: a completed run in non-splitting mode with a header and bunch size
\* B >= 1 has opened one output file only, the one with index 000, truncated
\* it once, and left in it the header line followed by the lines processed
\* (all N of them when there is no limit), however many flushes there were.
C8_SingleFile ==
  (pc = "done" /\ ~ splitFiles /\ nBunch >= 1 /\ HeaderConfigured(lineHeader))
    => /\ UsedPaths = {Path000}
       /\ Cardinality(Truncations(Path000)) = 1
       /\ fs[Path000] = HeaderLine(lineHeader) \o Concat(procd)
       /\ Occurrences(Head(lineHeader), fs[Path000]) = 1
       /\ iMax <= 0 => Len(procd) = N

\* C8, witness: a run in non-splitting mode that flushed three full bunches
\* to file 000
C8_Witness ==
  /\ pc = "done"
  /\ ~ splitFiles
  /\ nBunch = 1
  /\ HeaderConfigured(lineHeader)
  /\ N = 3
  /\ Len(procd) = 3
  /\ Cardinality(OpensOf(Path000)) = 4

\* C9: in counter mode the i-th line read is supplied idMin + i, and a
\* completed run over n lines returns idMax = idMin + n, which no identifier
\* supplied exceeds.
C9_ReturnedMax ==
  (pc = "done" /\ ~ useHealpix)
    => /\ \A i \in DOMAIN issued : issued[i].id = idMin + i
       /\ \A i \in DOMAIN issued : issued[i].id <= idMax
       /\ idMax = idMin + iCount

\* C10 as stated: every line read is emitted, passed through unchanged when
\* it has fewer than two tokens and otherwise as identifier and tokens,
\* comma-joined, with one newline.
C10_EveryLineEmitted ==
  \A i \in 1..iCount : i \in DOMAIN procd /\ IsEmitted(i)

Coordinates(i) == << Split(infil.lines[i])[colRA + 1], Split(infil.lines[i])[colDE + 1] >>

\* C10, amended: a line with fewer than two tokens is passed through
\* unchanged; a line with two or more tokens whose two coordinate tokens are
\* numbers is emitted as identifier and tokens, comma-joined, with one
\* newline, provided (in spatial mode) the index computation succeeds;
\* processInputLine raises, and the run ends without emitting the line,
\* only on a line with two or more tokens whose coordinates are not numbers
\* or, in spatial mode, whose index computation fails.  The emitted lines
\* reach the output in input order.
C10_PassThroughOrTagged ==
  /\ \A i \in 1..Len(procd) : IsEmitted(i)
  /\ pc # "raised" => Len(procd) = iCount
  /\ pc = "raised"
       => /\ Len(procd) = iCount - 1
          /\ Len(Split(infil.lines[iCount])) >= 2
          /\ useHealpix \/ ~ (IsFloat(Coordinates(iCount)[1]) /\ IsFloat(Coordinates(iCount)[2]))
  /\ (pc \in {"flush", "brk"} /\ ~ useHealpix /\ idMin = 8 /\ iCount = 2)
       => /\ infil.lines[2] = LineData
               => procd[2] = <<"1", "0", ",", "1", "0", ",", "2", "\n">>
          /\ infil.lines[2] = LineBlank => procd[2] = <<"\n">>
          /\ infil.lines[2] = LineOneTok => procd[2] = <<"7">>
          /\ infil.lines[2] = LineNoNL
               => procd[2] = <<"1", "0", ",", "3", ",", "4", "\n">>
  /\ pc = "done" => AllData = Concat(procd)

\* C10, witness: a completed run that passed a blank line through between
\* two tagged lines
C10_Witness ==
  /\ pc = "done"
  /\ N = 3
  /\ infil.lines[1] = LineData
  /\ infil.lines[2] = LineBlank
  /\ infil.lines[3] = LineNoNL
  /\ Len(procd) = 3
  /\ procd[2] = LineBlank

====
